---- MODULE Spec2Model ----
(***************************************************************************)
(* Passenger routes of the ride-share backend (register, signin, update,  *)
(* google-signup, profile, my-join-requests, driverposts, avatar) as a     *)
(* state machine over the Passenger / Driver stores, the join-request      *)
(* ledger and the post stores.                                             *)
(*                                                                         *)
(* Strings are sequences of one-character strings, so that trim() and the  *)
(* validation regular expressions are computed character by character.     *)
(***************************************************************************)
EXTENDS Integers, Sequences, FiniteSets, TLC

VARIABLES passengers, drivers, joinRequests, driverPosts, passengerPosts, issued, last,
          now, minted, verdict, inflight

vars == <<passengers, drivers, joinRequests, driverPosts, passengerPosts, issued, last,
          now, minted, verdict, inflight>>

(***************************************************************************)
(* Bounds of the model.                                                    *)
(***************************************************************************)
MaxPassengers == 2

MaxJoinRequests == 2

\* The last hour of the clock.
MaxClock == 26

\* The requests followed step by step.
MaxRequests == 2

(***************************************************************************)
(* Characters and strings.                                                 *)
(***************************************************************************)
\* Character codes (UTF-16 code units) of the characters the inputs use.
Ord ==
  [c \in {" ", "-", ".", "0", "1", "2", "3", "4", "5", "6", "7", "8", "9", "@",
          "A", "B", "_", "a", "b", "c", "d", "e", "l", "o"} |->
     CASE c = " " -> 32 [] c = "-" -> 45 [] c = "." -> 46
       [] c = "0" -> 48 [] c = "1" -> 49 [] c = "2" -> 50 [] c = "3" -> 51
       [] c = "4" -> 52 [] c = "5" -> 53 [] c = "6" -> 54 [] c = "7" -> 55
       [] c = "8" -> 56 [] c = "9" -> 57 [] c = "@" -> 64
       [] c = "A" -> 65 [] c = "B" -> 66 [] c = "_" -> 95
       [] c = "a" -> 97 [] c = "b" -> 98 [] c = "c" -> 99 [] c = "d" -> 100
       [] c = "e" -> 101 [] c = "l" -> 108 [] c = "o" -> 111]

\* A character range of a regular expression character class, by code unit.
InRange(c, lo, hi) == lo <= Ord[c] /\ Ord[c] <= hi

\* What String.prototype.trim strips (of the model alphabet: the space).
IsWhiteSpace(c) == Ord[c] = 32

\* \d  is  [0-9]
IsDigit(c) == InRange(c, 48, 57)

\* \w  is  [A-Za-z0-9_]
IsWord(c) == InRange(c, 65, 90) \/ InRange(c, 97, 122) \/ IsDigit(c) \/ Ord[c] = 95

RECURSIVE TrimStart(_)
TrimStart(s) ==
  IF s # <<>> /\ IsWhiteSpace(Head(s)) THEN TrimStart(Tail(s)) ELSE s

RECURSIVE TrimEnd(_)
TrimEnd(s) ==
  IF s # <<>> /\ IsWhiteSpace(s[Len(s)]) THEN TrimEnd(SubSeq(s, 1, Len(s) - 1)) ELSE s

\* String.prototype.trim
Trim(s) == TrimEnd(TrimStart(s))

\* /^[\w-\.]+@([\w-]+\.)+[\w-]{2,4}$/.test(s): a local part of [\w-.], the
\* "@" at p, then labels of [\w-] each closed by a ".", the last "." at q,
\* then two to four characters of [\w-].
EmailRegex(s) ==
  \E p \in 1..Len(s) :
    /\ s[p] = "@"
    /\ p > 1
    /\ \A i \in 1..(p - 1) : IsWord(s[i]) \/ s[i] = "-" \/ s[i] = "."
    /\ \A i \in (p + 1)..Len(s) : IsWord(s[i]) \/ s[i] = "-" \/ s[i] = "."
    /\ \E q \in (p + 1)..Len(s) :
         /\ s[q] = "."
         /\ \A i \in (q + 1)..Len(s) : s[i] # "."
         /\ Len(s) - q >= 2
         /\ Len(s) - q <= 4
         /\ \A i \in (p + 1)..q : s[i] = "." => (i > p + 1 /\ s[i - 1] # ".")

\* /^[a-zA-z]*$/.test(s): the class is the ranges a-z and A-z; the second
\* one ends at the small z, so it spans the code units 65..122.
NameRegex(s) ==
  \A i \in 1..Len(s) : InRange(s[i], 97, 122) \/ InRange(s[i], 65, 122)

\* /^\d{10}$/.test(s)
PhoneRegex(s) == Len(s) = 10 /\ \A i \in 1..Len(s) : IsDigit(s[i])

MinPasswordLength == 8

(***************************************************************************)
(* Credential hasher (bcrypt, an external library): the verifier wraps the *)
(* secret it was made from and is no string; compare() opens it.           *)
(***************************************************************************)
\* Mutant of the hasher: the secret is kept as it was given.
HashKeepsPlaintext(secret) == [plain |-> secret]

Hash(secret) == [bcrypt |-> secret]

\* Mutant of the comparison: every secret verifies.
CompareAnything(secret, verifier) == TRUE

Compare(secret, verifier) == verifier.bcrypt = secret

(***************************************************************************)
(* Session tokens.  A signed token carries the payload { userId }; a       *)
(* payload built from an undefined id carries UndefinedId.                 *)
(***************************************************************************)
UndefinedId == 0

Sign(userId) == [kind |-> "jwt", userId |-> userId]

\* { expiresIn: '24h' }, in hours.
ExpiresIn == 24

\* jwt.sign(payload, secret, { expiresIn: '24h' }) at clock t: the payload with
\* the issued-at and expiry claims the signing adds.
SignAt(userId, t) ==
  [kind |-> "jwt", userId |-> userId, iat |-> t, exp |-> t + ExpiresIn]

NoToken == [kind |-> "none", userId |-> UndefinedId]

BadToken == [kind |-> "bad", userId |-> UndefinedId]

\* The tokens a caller can present: none, one that does not verify, or one
\* this server issued.
Presentable == {NoToken, BadToken} \cup {Sign(u) : u \in issued}

(***************************************************************************)
(* The inputs the requests are drawn from.                                 *)
(***************************************************************************)
EmailA == <<"a", "@", "b", ".", "c", "o">>

EmailC == <<"c", "@", "d", ".", "c", "o">>

\* The email of the driver account of the initial Driver store.
EmailD == <<"d", "@", "e", ".", "c", "o">>

NameAl == <<"A", "l">>

NameBo == <<"B", "o">>

Phone10 == <<"1", "2", "3", "4", "5", "6", "7", "8", "9", "0">>

Phone9 == <<"1", "2", "3", "4", "5", "6", "7", "8", "9">>

Secret1 == <<"a", "b", "c", "d", "1", "2", "3", "4">>

Secret2 == <<"d", "c", "b", "a", "4", "3", "2", "1">>

\* `${Math.random()*1000000}`: a decimal numeral.
RandomSecrets == {<<"4", "2", "0", "1", "7", ".", "5">>}

Pad(s) == <<" ">> \o s \o <<" ">>

RegisterBody(email, password, name, phonenumber) ==
  [email |-> email, password |-> password, name |-> name, phonenumber |-> phonenumber]

\* A valid body for each email, and bodies with one field of it changed.
RegisterBodies ==
  {RegisterBody(e, Secret1, NameAl, Phone10) :
     e \in {EmailA, Pad(EmailA), EmailC, EmailD, <<"a", "b", ".", "c", "o">>, <<" ">>}}
  \cup
  {RegisterBody(EmailA, Secret1, n, Phone10) : n \in {<<"A", "_">>, <<"A", "1">>, <<>>}}
  \cup
  {RegisterBody(EmailA, Pad(<<"a", "b", "c", "d", "1", "2", "3">>), NameAl, Phone10),
   RegisterBody(EmailA, Secret1, NameAl, Phone9),
   RegisterBody(EmailD, Secret1, <<"A", "1">>, Phone10)}

SigninBody(email, password) == [email |-> email, password |-> password]

SigninBodies ==
  {SigninBody(EmailA, Secret1), SigninBody(Pad(EmailA), Pad(Secret1)),
   SigninBody(EmailA, Secret2), SigninBody(EmailC, Secret1),
   SigninBody(EmailD, Secret1), SigninBody(<<" ">>, Secret1),
   SigninBody(EmailA, <<>>)}

\* A field left out of an update body and a field sent as "" are both falsy
\* to the handler: <<>> stands for either.
UpdateBody(name, phonenumber, email, newPassword) ==
  [name |-> name, phonenumber |-> phonenumber, email |-> email, newPassword |-> newPassword]

UpdateBodies ==
  {UpdateBody(<<>>, <<>>, e, <<>>) : e \in {EmailC, <<" ">> \o EmailD}}
  \cup
  {UpdateBody(Pad(NameBo), Phone9, e, Secret2) : e \in {<<>>, EmailA, EmailD}}

\* What verifyGoogleToken makes of the ID token: the verified payload, or a
\* rejection.
GooglePayloads == [email : {EmailA, EmailC, EmailD}, name : {NameAl}]

GoogleTokens ==
  {[valid |-> TRUE, payload |-> p] : p \in GooglePayloads}
  \cup {[valid |-> FALSE, payload |-> [email |-> <<>>, name |-> <<>>]]}

(***************************************************************************)
(* Documents, responses.                                                   *)
(***************************************************************************)
NoAvatar == [data |-> <<>>, contentType |-> ""]

NoData == <<>>

\* res.json({status, message, data, token}) or res.status(code).send(...)
Response(code, status, message, data, token) ==
  [code |-> code, status |-> status, message |-> message, data |-> data, token |-> token]

Failed(message) == Response(200, "FAILED", message, NoData, NoToken)

\* The record of the request served last and of its response; touched are
\* the collections the handler queried or wrote.
Served(op, token, req, resp, touched) ==
  [op |-> op, token |-> token, req |-> req, resp |-> resp, touched |-> touched]

(***************************************************************************)
(* Identity store.                                                         *)
(***************************************************************************)
\* Passenger.find({ email }): the matching documents in natural order.
FindByEmail(email) ==
  SelectSeq(passengers, LAMBDA doc : doc.email = email)

\* Passenger.findById(id): the index of the document, 0 for null.
FindById(id) == IF id \in 1..Len(passengers) THEN id ELSE 0

\* Mutants of emailExistsInBoth: one that forgets the Driver lookup, one that
\* forgets the Passenger lookup.
EmailExistsPassengerOnly(email) ==
  \E i \in 1..Len(passengers) : passengers[i].email = email

EmailExistsDriverOnly(email) ==
  \E d \in drivers : d.email = email

EmailExistsInBoth(email) ==
  LET passengerExists == \E i \in 1..Len(passengers) : passengers[i].email = email
      driverExists == \E d \in drivers : d.email = email
  IN  passengerExists \/ driverExists

(***************************************************************************)
(* POST /register                                                          *)
(***************************************************************************)
\* The fields of a register body as the handler sees them (lines 170-173).
Trimmed(body) == [f \in DOMAIN body |-> Trim(body[f])]

\* The validation chain on the trimmed fields: the message of the first
\* check that fails, "" when all pass.
RegisterValidation(email, password, name, phonenumber) ==
  IF email = <<>> \/ password = <<>> \/ name = <<>> \/ phonenumber = <<>>
    THEN "Empty Input for some fields"
  ELSE IF ~EmailRegex(email) THEN "Invalid Email"
  ELSE IF ~NameRegex(name) THEN "Invalid Name"
  ELSE IF ~PhoneRegex(phonenumber) THEN "Invalid PhoneNumber"
  ELSE IF Len(password) < MinPasswordLength THEN "Invalid Password"
  ELSE ""

\* fault names the awaited call that rejects ("none": no call does).
Register(body, fault) ==
  LET email == Trim(body.email)
      password == Trim(body.password)
      name == Trim(body.name)
      phonenumber == Trim(body.phonenumber)
      invalid == RegisterValidation(email, password, name, phonenumber)
      newPassenger == [_id |-> Len(passengers) + 1, email |-> email,
                       password |-> Hash(password), name |-> name,
                       phonenumber |-> phonenumber, avatar |-> NoAvatar]
      saves == invalid = "" /\ fault = "none" /\ ~EmailExistsInBoth(email)
      resp ==
        IF invalid # "" THEN Failed(invalid)
        ELSE IF fault = "exists"
          THEN Failed("Error Occur when trying to check for existing User")
        ELSE IF EmailExistsInBoth(email)
          THEN Failed("User with this email already exist as a driver or passenger")
        ELSE IF fault = "hash" THEN Failed("Error Occur when hashing password")
        ELSE IF fault = "save"
          THEN Failed("Error Occur when trying to save user account")
        ELSE Response(200, "SUCCESS", "Registration Successfully",
                      <<newPassenger>>, NoToken)
  IN  /\ fault \in {"none", "exists", "hash", "save"}
      /\ saves => Len(passengers) < MaxPassengers
      /\ passengers' = IF saves THEN Append(passengers, newPassenger) ELSE passengers
      /\ last' = Served("register", NoToken, body, resp,
                        IF invalid = "" THEN {"Passenger", "Driver"} ELSE {})
      /\ UNCHANGED <<drivers, joinRequests, driverPosts, passengerPosts, issued>>

(***************************************************************************)
(* POST /signin                                                            *)
(***************************************************************************)
\* Passenger.find resolves to an array, which is truthy also when empty; the
\* read of data[0]._id then throws in the callback and the outer catch
\* answers.
Signin(body, fault) ==
  LET email == Trim(body.email)
      password == Trim(body.password)
      data == FindByEmail(email)
      token == Sign(data[1]._id)
      hashPassword == data[1].password
      resp ==
        IF email = <<>> \/ password = <<>> THEN Failed("Empty input")
        ELSE IF fault = "find" \/ data = <<>>
          THEN Failed("No existing User with input email")
        ELSE IF fault = "compare"
          THEN Failed("Error Occur when trying to check for password")
        ELSE IF Compare(password, hashPassword)
          THEN Response(200, "Success", "User Successfully logged in", data, token)
        ELSE Failed("Wrong password")
  IN  /\ fault \in {"none", "find", "compare"}
      /\ issued' = IF resp.token = NoToken THEN issued
                   ELSE issued \cup {resp.token.userId}
      /\ last' = Served("signin", NoToken, body, resp,
                        IF email = <<>> \/ password = <<>> THEN {} ELSE {"Passenger"})
      /\ UNCHANGED <<passengers, drivers, joinRequests, driverPosts, passengerPosts>>

(***************************************************************************)
(* authenticateToken middleware: 0 when the token verifies and the route's *)
(* handler runs with req.user set to the payload, else the status code it  *)
(* answers with, the handler never being called.                           *)
(***************************************************************************)
AuthenticateToken(token) ==
  IF token.kind = "none" THEN 401 ELSE IF token.kind = "bad" THEN 403 ELSE 0

Unauthorized(code) == Response(code, "", "", NoData, NoToken)

\* Mutant of the route registration: the middleware is left out.
RouteUnguarded(token) == 0

\* router.<verb>(path, authenticateToken, handler): the middleware a
\* protected route is registered with runs before its handler.
RouteGuard(token) == AuthenticateToken(token)

(***************************************************************************)
(* PUT /update                                                             *)
(***************************************************************************)
Update(token, body, fault) ==
  LET denied == RouteGuard(token)
      found == FindById(token.userId)
      user == passengers[found]
      named == IF body.name # <<>> THEN [user EXCEPT !.name = Trim(body.name)] ELSE user
      phoned == IF body.phonenumber # <<>>
                  THEN [named EXCEPT !.phonenumber = Trim(body.phonenumber)]
                  ELSE named
      changesEmail == body.email # <<>> /\ body.email # user.email
      mailed == IF changesEmail THEN [phoned EXCEPT !.email = Trim(body.email)] ELSE phoned
      rehashed == IF body.newPassword # <<>>
                    THEN [mailed EXCEPT !.password = Hash(body.newPassword)]
                    ELSE mailed
      resp ==
        IF denied # 0 THEN Unauthorized(denied)
        ELSE IF fault = "findById" THEN Response(500, "", "findById failed", NoData, NoToken)
        ELSE IF found = 0 THEN Response(404, "", "User not found", NoData, NoToken)
        ELSE IF changesEmail /\ fault = "exists"
          THEN Response(500, "", "findOne failed", NoData, NoToken)
        ELSE IF changesEmail /\ EmailExistsInBoth(body.email)
          THEN Response(400, "", "Email already in use", NoData, NoToken)
        ELSE IF body.newPassword # <<>> /\ fault = "hash"
          THEN Response(500, "", "hash failed", NoData, NoToken)
        ELSE IF fault = "save" THEN Response(500, "", "save failed", NoData, NoToken)
        ELSE Response(200, "SUCCESS", "Profile updated successfully", <<rehashed>>, NoToken)
      touched ==
        IF denied # 0 THEN {}
        ELSE IF fault = "findById" \/ found = 0 \/ ~changesEmail THEN {"Passenger"}
        ELSE {"Passenger", "Driver"}
  IN  /\ fault \in {"none", "findById", "exists", "hash", "save"}
      /\ passengers' = IF resp.code = 200
                         THEN [passengers EXCEPT ![found] = rehashed]
                         ELSE passengers
      /\ last' = Served("update", token, body, resp, touched)
      /\ UNCHANGED <<drivers, joinRequests, driverPosts, passengerPosts, issued>>

(***************************************************************************)
(* POST /google-signup                                                     *)
(***************************************************************************)
\* verifyGoogleToken(token): the payload, or a rejection (FALSE).
VerifyGoogleToken(idToken) == idToken.valid

\* A catch block that hands the caller the text of the error it caught.
VerificationErrorSurfaced ==
  Response(500, "", "Invalid Google token", NoData, NoToken)

\* catch (error): res.status(500).json({ message: 'Internal server error' }).
InternalServerError ==
  Response(500, "", "Internal server error", NoData, NoToken)

\* When the email exists, user is the boolean true and user._id is
\* undefined: the payload signed is { userId: undefined }.
GoogleSignup(idToken, fault) ==
  \E random \in RandomSecrets :
    LET email == idToken.payload.email
        name == idToken.payload.name
        exists == EmailExistsInBoth(email)
        created == [_id |-> Len(passengers) + 1, email |-> email,
                    password |-> Hash(random), name |-> name,
                    phonenumber |-> <<>>, avatar |-> NoAvatar]
        failure == InternalServerError
        resp ==
          IF ~VerifyGoogleToken(idToken) \/ fault = "verify" THEN failure
          ELSE IF fault = "exists" THEN failure
          ELSE IF exists
            THEN Response(200, "", "User authenticated successfully", <<TRUE>>,
                          Sign(UndefinedId))
          ELSE IF fault \in {"hash", "save"} THEN failure
          ELSE Response(200, "", "User authenticated successfully", <<created>>,
                        Sign(created._id))
        saves == resp.code = 200 /\ ~exists
    IN  /\ fault \in {"none", "verify", "exists", "hash", "save"}
        /\ saves => Len(passengers) < MaxPassengers
        /\ passengers' = IF saves THEN Append(passengers, created) ELSE passengers
        /\ issued' = IF resp.code = 200 THEN issued \cup {resp.token.userId} ELSE issued
        /\ last' = Served("google-signup", NoToken, idToken, resp,
                          IF ~VerifyGoogleToken(idToken) \/ fault = "verify"
                            THEN {} ELSE {"Passenger", "Driver"})
        /\ UNCHANGED <<drivers, joinRequests, driverPosts, passengerPosts>>

(***************************************************************************)
(* The clock, the token followed through its validity window and the       *)
(* requests in flight.  In the specifications of whole handlers, one after *)
(* the other at one instant, they stay as they start.                      *)
(***************************************************************************)
NoMinted == [op |-> "none", email |-> <<>>, token |-> SignAt(UndefinedId, 0)]

NoVerdict == [at |-> 0, subject |-> 0, checked |-> FALSE]

InitSequential ==
  /\ now = 0
  /\ minted = NoMinted
  /\ verdict = NoVerdict
  /\ inflight = <<>>

Sequential == UNCHANGED <<now, minted, verdict, inflight>>

(***************************************************************************)
(* Specification of the identity routes, every awaited call resolving.     *)
(***************************************************************************)
Idle == Served("none", NoToken, <<>>, Response(0, "", "", NoData, NoToken), {})

InitialDrivers == {[_id |-> 1001, email |-> EmailD]}

Init ==
  /\ passengers = <<>>
  /\ drivers = InitialDrivers
  /\ joinRequests = <<>>
  /\ driverPosts = {}
  /\ passengerPosts = {}
  /\ issued = {}
  /\ last = Idle
  /\ InitSequential

Next ==
  \/ \E body \in RegisterBodies : Register(body, "none") /\ Sequential
  \/ \E body \in SigninBodies : Signin(body, "none") /\ Sequential
  \/ \E token \in Presentable, body \in UpdateBodies : Update(token, body, "none") /\ Sequential
  \/ \E idToken \in GoogleTokens : GoogleSignup(idToken, "none") /\ Sequential

Spec == Init /\ [][Next]_vars

(***************************************************************************)
(* Join-request ledger and posts.                                          *)
(***************************************************************************)
DriverPost(id, from, to, seats) ==
  [_id |-> id, startingLocation |-> from, endingLocation |-> to, startTime |-> "09:00",
   additionalNotes |-> "none", numberOfSeats |-> seats, licensenumber |-> "LIC" \o to,
   model |-> "sedan", phonenumber |-> Phone10, email |-> EmailD]

\* The driver posts ever created, in natural order.
AllDriverPosts == <<DriverPost(501, "campus", "airport", 3), DriverPost(502, "campus", "beach", 2)>>

Statuses == {"pending", "accepted", "rejected"}

\* .populate('driverPostId'): the referenced post, or null (here <<>>) when
\* no such post exists any more.
Populate(request) ==
  SelectSeq(driverPosts, LAMBDA post : post._id = request.driverPostId)

\* joinRequest.find({ passengerId }).populate('driverPostId')
FindJoinRequests(passengerId) ==
  SelectSeq(joinRequests, LAMBDA request : request.passengerId = passengerId)

ContactKeys == {"licensenumber", "model", "phonenumber", "email"}

RouteKeys == {"postId", "startingLocation", "endingLocation", "startTime", "status",
              "additionalNotes", "numberOfSeats"}

\* Mutant of the view: the contact fields are blanked, not withheld.
RideshareDetailsBlanked(request, post) ==
  [postId |-> post._id, startingLocation |-> post.startingLocation,
   endingLocation |-> post.endingLocation, startTime |-> post.startTime,
   status |-> request.status, additionalNotes |-> post.additionalNotes,
   numberOfSeats |-> post.numberOfSeats,
   licensenumber |-> IF request.status = "accepted" THEN post.licensenumber ELSE "",
   model |-> IF request.status = "accepted" THEN post.model ELSE "",
   phonenumber |-> IF request.status = "accepted" THEN post.phonenumber ELSE <<>>,
   email |-> IF request.status = "accepted" THEN post.email ELSE <<>>]

\* The object the map callback builds from a request and its populated post:
\* the spread of (status === 'accepted' && {...}) adds the four contact keys
\* when accepted and nothing otherwise.
RideshareDetails(request, post) ==
  LET route == [postId |-> post._id, startingLocation |-> post.startingLocation,
                endingLocation |-> post.endingLocation, startTime |-> post.startTime,
                status |-> request.status, additionalNotes |-> post.additionalNotes,
                numberOfSeats |-> post.numberOfSeats]
      contact == [licensenumber |-> post.licensenumber, model |-> post.model,
                  phonenumber |-> post.phonenumber, email |-> post.email]
  IN  IF request.status = "accepted" THEN route @@ contact ELSE route

\* JoinRequests.map(...) throws a TypeError at the first request whose
\* driverPostId is null (request.driverPostId._id).
MapThrows(requests) == \E i \in 1..Len(requests) : Populate(requests[i]) = <<>>

Rideshares(requests) ==
  [i \in 1..Len(requests) |-> RideshareDetails(requests[i], Populate(requests[i])[1])]

(***************************************************************************)
(* GET /profile                                                            *)
(***************************************************************************)
\* res.json(userProfile): the user document's own fields with avatar,
\* rideshares and passengerPosts set over them; a key whose value is
\* undefined (avatar, when none is stored) is left out by the serialiser.
UserProfile(user, rideshares, posts) ==
  LET avatarBase64 == <<"data:", user.avatar.contentType, ";base64,">> \o user.avatar.data
      all == [avatar |-> avatarBase64, rideshares |-> rideshares, passengerPosts |-> posts]
             @@ user
  IN  IF user.avatar.data # <<>> THEN all
      ELSE [k \in (DOMAIN all) \ {"avatar"} |-> all[k]]

GetProfile(token, fault) ==
  LET denied == RouteGuard(token)
      found == FindById(token.userId)
      requests == FindJoinRequests(token.userId)
      posts == SelectSeq(passengerPosts, LAMBDA post : post.passengerId = token.userId)
      resp ==
        IF denied # 0 THEN Unauthorized(denied)
        ELSE IF fault = "findById" THEN Response(500, "", "findById failed", NoData, NoToken)
        ELSE IF found = 0 THEN Response(404, "", "User not found", NoData, NoToken)
        ELSE IF fault = "find" THEN Response(500, "", "find failed", NoData, NoToken)
        ELSE IF MapThrows(requests)
          THEN Response(500, "", "Cannot read properties of null", NoData, NoToken)
        ELSE Response(200, "", "",
                      <<UserProfile(passengers[found], Rideshares(requests), posts)>>, NoToken)
      touched ==
        IF denied # 0 THEN {}
        ELSE IF fault = "findById" \/ found = 0 THEN {"Passenger"}
        ELSE IF fault = "find" \/ MapThrows(requests)
          THEN {"Passenger", "joinRequest", "Driverpost"}
        ELSE {"Passenger", "joinRequest", "Driverpost", "Passengerpost"}
  IN  /\ fault \in {"none", "findById", "find"}
      /\ last' = Served("profile", token, <<>>, resp, touched)
      /\ UNCHANGED <<passengers, drivers, joinRequests, driverPosts, passengerPosts, issued>>

(***************************************************************************)
(* GET /my-join-requests                                                   *)
(***************************************************************************)
MyJoinRequests(token, fault) ==
  LET denied == RouteGuard(token)
      requests == FindJoinRequests(token.userId)
      resp ==
        IF denied # 0 THEN Unauthorized(denied)
        ELSE IF fault = "find" \/ MapThrows(requests)
          THEN Response(500, "", "Server error", NoData, NoToken)
        ELSE Response(200, "", "", Rideshares(requests), NoToken)
  IN  /\ fault \in {"none", "find"}
      /\ last' = Served("my-join-requests", token, <<>>, resp,
                        IF denied # 0 THEN {} ELSE {"joinRequest", "Driverpost"})
      /\ UNCHANGED <<passengers, drivers, joinRequests, driverPosts, passengerPosts, issued>>

(***************************************************************************)
(* GET /driverposts                                                        *)
(***************************************************************************)
ListDriverPosts(token, fault) ==
  LET denied == RouteGuard(token)
      resp ==
        IF denied # 0 THEN Unauthorized(denied)
        ELSE IF fault = "find"
          THEN Response(500, "", "Failed to fetch driver posts", NoData, NoToken)
        ELSE Response(200, "", "", driverPosts, NoToken)
  IN  /\ fault \in {"none", "find"}
      /\ last' = Served("driverposts", token, <<>>, resp,
                        IF denied # 0 THEN {} ELSE {"Driverpost"})
      /\ UNCHANGED <<passengers, drivers, joinRequests, driverPosts, passengerPosts, issued>>

(***************************************************************************)
(* POST /avatar                                                            *)
(***************************************************************************)
NoFile == [originalname |-> <<>>, buffer |-> <<>>]

\* The multipart bodies: no file, a png, a file the filter refuses.
Uploads ==
  {NoFile,
   [originalname |-> <<"a", ".", "png">>, buffer |-> <<"pixels">>],
   [originalname |-> <<"a", ".", "gif">>, buffer |-> <<"pixels">>]}

\* file.originalname.match(/\.(jpg|jpeg|png)$/)
ImageName(originalname) ==
  \E ext \in {<<".", "jpg">>, <<".", "jpeg">>, <<".", "png">>} :
    /\ Len(originalname) >= Len(ext)
    /\ SubSeq(originalname, Len(originalname) - Len(ext) + 1, Len(originalname)) = ext

\* sharp(buffer).resize(250, 250, ...).png().toBuffer()
Resize(buffer) == <<"png250x250">> \o buffer

Avatar(token, file, fault) ==
  LET denied == RouteGuard(token)
      found == FindById(token.userId)
      stored == [data |-> Resize(file.buffer), contentType |-> "image/png"]
      resp ==
        IF denied # 0 THEN Unauthorized(denied)
        ELSE IF file # NoFile /\ ~ImageName(file.originalname)
          THEN Response(400, "", "Please upload an image file (jpg, jpeg, or png).",
                        NoData, NoToken)
        ELSE IF file = NoFile THEN Response(400, "", "Avatar is required.", NoData, NoToken)
        ELSE IF fault = "findById" THEN Response(400, "", "findById failed", NoData, NoToken)
        ELSE IF found = 0 THEN Response(404, "", "Passenger not found", NoData, NoToken)
        ELSE IF fault = "sharp" THEN Response(400, "", "sharp failed", NoData, NoToken)
        ELSE IF fault = "save" THEN Response(400, "", "save failed", NoData, NoToken)
        ELSE Response(200, "", "Avatar updated successfully", NoData, NoToken)
      touched ==
        IF denied # 0 \/ file = NoFile \/ ~ImageName(file.originalname) THEN {}
        ELSE {"Passenger"}
  IN  /\ fault \in {"none", "findById", "sharp", "save"}
      /\ passengers' = IF resp.code = 200
                         THEN [passengers EXCEPT ![found].avatar = stored]
                         ELSE passengers
      /\ last' = Served("avatar", token, file, resp, touched)
      /\ UNCHANGED <<drivers, joinRequests, driverPosts, passengerPosts, issued>>

(***************************************************************************)
(* Specification of the aggregation routes over every small ledger: the    *)
(* join requests and the surviving driver posts are written by routes      *)
(* outside this router, so they are drawn at the start.                    *)
(***************************************************************************)
StoredPassenger(id, email, secret, name) ==
  [_id |-> id, email |-> email, password |-> Hash(secret), name |-> name,
   phonenumber |-> Phone10, avatar |-> NoAvatar]

TwoPassengers ==
  <<StoredPassenger(1, EmailA, Secret1, NameAl), StoredPassenger(2, EmailC, Secret1, NameAl)>>

JoinRequestRecords ==
  [passengerId : {1, 2}, driverPostId : {501, 502}, status : Statuses]

RECURSIVE SeqsUpTo(_, _)
SeqsUpTo(S, n) ==
  IF n = 0 THEN {<<>>}
  ELSE LET shorter == SeqsUpTo(S, n - 1)
       IN  shorter \cup {Append(q, x) : q \in shorter, x \in S}

SomePassengerPosts ==
  <<[_id |-> 701, passengerId |-> 1, startingLocation |-> "campus",
     endingLocation |-> "airport", startTime |-> "10:00"]>>

InitProfile ==
  /\ passengers = TwoPassengers
  /\ drivers = InitialDrivers
  /\ joinRequests \in SeqsUpTo(JoinRequestRecords, MaxJoinRequests)
  /\ driverPosts \in {<<>>, <<AllDriverPosts[1]>>, <<AllDriverPosts[2]>>, AllDriverPosts}
  /\ passengerPosts = SomePassengerPosts
  /\ issued = {1, 2}
  /\ last = Idle
  /\ InitSequential

NextProfile ==
  \/ \E token \in Presentable : GetProfile(token, "none") /\ Sequential
  \/ \E token \in Presentable : MyJoinRequests(token, "none") /\ Sequential

SpecProfile == InitProfile /\ [][NextProfile]_vars

(***************************************************************************)
(* Specification of the protected routes, from a store of two passengers   *)
(* with one accepted and one pending join request.                         *)
(***************************************************************************)
InitProtected ==
  /\ passengers = TwoPassengers
  /\ drivers = InitialDrivers
  /\ joinRequests = <<[passengerId |-> 1, driverPostId |-> 501, status |-> "accepted"],
                      [passengerId |-> 2, driverPostId |-> 502, status |-> "pending"]>>
  /\ driverPosts = AllDriverPosts
  /\ passengerPosts = SomePassengerPosts
  /\ issued = {1, 2}
  /\ last = Idle
  /\ InitSequential

NextProtected ==
  \/ \E token \in Presentable : GetProfile(token, "none") /\ Sequential
  \/ \E token \in Presentable : MyJoinRequests(token, "none") /\ Sequential
  \/ \E token \in Presentable, body \in UpdateBodies : Update(token, body, "none") /\ Sequential
  \/ \E token \in Presentable : ListDriverPosts(token, "none") /\ Sequential
  \/ \E token \in Presentable, file \in Uploads : Avatar(token, file, "none") /\ Sequential

SpecProtected == InitProtected /\ [][NextProtected]_vars

(***************************************************************************)
(* The identity routes with awaited calls that may reject.                 *)
(***************************************************************************)
NextFaults ==
  \/ \E body \in RegisterBodies, fault \in {"none", "exists", "hash", "save"} :
       Register(body, fault) /\ Sequential
  \/ \E body \in SigninBodies, fault \in {"none", "find", "compare"} :
       Signin(body, fault) /\ Sequential
  \/ \E token \in Presentable, body \in UpdateBodies,
        fault \in {"none", "findById", "exists", "hash", "save"} :
       Update(token, body, fault) /\ Sequential
  \/ \E idToken \in GoogleTokens, fault \in {"none", "verify", "exists", "hash", "save"} :
       GoogleSignup(idToken, fault) /\ Sequential

SpecFaults == Init /\ [][NextFaults]_vars

(***************************************************************************)
(* Session tokens through time: signin and google-signup at the clock's    *)
(* hour, the clock advancing, and the middleware verifying the token most  *)
(* recently issued.                                                        *)
(***************************************************************************)
ExpiredToken == -1

\* verify(token) at a clock: the subject, or the expired-token error once the
\* clock is past the expiry.
VerifyAt(token, clock) ==
  IF clock <= token.exp THEN token.userId ELSE ExpiredToken

\* The token of a response as signed at the clock, with the email it was
\* asked for; a response without a token leaves the followed token alone.
Minted(op, email, resp) ==
  IF resp.token = NoToken THEN minted
  ELSE [op |-> op, email |-> email, token |-> SignAt(resp.token.userId, now)]

SigninAtClock ==
  \E body \in SigninBodies :
    /\ Signin(body, "none")
    /\ minted' = Minted("signin", Trim(body.email), last'.resp)
    /\ verdict' = IF last'.resp.token = NoToken THEN verdict ELSE NoVerdict
    /\ UNCHANGED <<now, inflight>>

GoogleSignupAtClock ==
  \E idToken \in GoogleTokens :
    /\ GoogleSignup(idToken, "none")
    /\ minted' = Minted("google-signup", idToken.payload.email, last'.resp)
    /\ verdict' = IF last'.resp.token = NoToken THEN verdict ELSE NoVerdict
    /\ UNCHANGED <<now, inflight>>

Tick ==
  /\ now < MaxClock
  /\ now' = now + 1
  /\ verdict' = NoVerdict
  /\ UNCHANGED <<passengers, drivers, joinRequests, driverPosts, passengerPosts,
                 issued, last, minted, inflight>>

\* A request presenting the followed token reaches the middleware.
AuthenticateAtClock ==
  /\ minted.op # "none"
  /\ verdict' = [at |-> now, subject |-> VerifyAt(minted.token, now), checked |-> TRUE]
  /\ UNCHANGED <<passengers, drivers, joinRequests, driverPosts, passengerPosts,
                 issued, last, now, minted, inflight>>

InitToken ==
  /\ passengers = <<StoredPassenger(1, EmailA, Secret1, NameAl)>>
  /\ drivers = InitialDrivers
  /\ joinRequests = <<>>
  /\ driverPosts = {}
  /\ passengerPosts = {}
  /\ issued = {}
  /\ last = Idle
  /\ InitSequential

NextToken ==
  \/ SigninAtClock
  \/ GoogleSignupAtClock
  \/ Tick
  \/ AuthenticateAtClock

SpecToken == InitToken /\ [][NextToken]_vars

(***************************************************************************)
(* /register and /signin callback by callback.  A request in flight waits  *)
(* at pc for the promise of one call to settle; the callback of a resolved *)
(* promise, or the catch of a rejected one, runs to its end as one step,   *)
(* and the steps of different requests interleave.                         *)
(***************************************************************************)
Settlements == {"resolved", "rejected"}

Request(op, body) ==
  [op |-> op, body |-> body, pc |-> "start", passengerExists |-> FALSE,
   data |-> <<>>, rejected |-> FALSE, responses |-> <<>>]

\* res.json(resp): the handler has nothing left to run.
Answered(req, resp) ==
  [req EXCEPT !.pc = "done", !.responses = Append(@, resp)]

\* The catch of a rejected promise answers.
Caught(req, resp) == [Answered(req, resp) EXCEPT !.rejected = TRUE]

Waiting(r, op, pc) ==
  /\ r \in 1..Len(inflight)
  /\ inflight[r].op = op
  /\ inflight[r].pc = pc

AsyncRegisterBodies ==
  {RegisterBody(EmailC, Secret1, NameAl, Phone10),
   RegisterBody(EmailD, Secret1, NameAl, Phone10),
   RegisterBody(EmailC, Secret1, <<"A", "1">>, Phone10)}

AsyncSigninBodies ==
  {SigninBody(EmailA, Secret1), SigninBody(EmailA, Secret2),
   SigninBody(EmailC, Secret1), SigninBody(EmailA, <<" ">>)}

\* The synchronous part of the /register handler: trim, validate, and call
\* emailExistsInBoth, whose first await is Passenger.findOne.
RegisterStart(body) ==
  LET invalid == RegisterValidation(Trim(body.email), Trim(body.password),
                                    Trim(body.name), Trim(body.phonenumber))
      req == Request("register", body)
  IN  /\ Len(inflight) < MaxRequests
      /\ inflight' = Append(inflight,
                        IF invalid # "" THEN Answered(req, Failed(invalid))
                        ELSE [req EXCEPT !.pc = "findPassenger"])
      /\ UNCHANGED <<passengers, drivers, joinRequests, driverPosts, passengerPosts,
                     issued, last, now, minted, verdict>>

\* await Passenger.findOne({ email }).exec()
RegisterFindPassenger(r, settles) ==
  /\ Waiting(r, "register", "findPassenger")
  /\ settles \in Settlements
  /\ LET email == Trim(inflight[r].body.email)
         found == \E i \in 1..Len(passengers) : passengers[i].email = email
     IN  inflight' = [inflight EXCEPT ![r] =
           IF settles = "rejected"
             THEN Caught(@, Failed("Error Occur when trying to check for existing User"))
             ELSE [@ EXCEPT !.pc = "findDriver", !.passengerExists = found]]
  /\ UNCHANGED <<passengers, drivers, joinRequests, driverPosts, passengerPosts,
                 issued, last, now, minted, verdict>>

\* await Driver.findOne({ email }).exec(), then the callback of
\* emailExistsInBoth(email): the duplicate answer, or bcrypt.hash is called.
RegisterFindDriver(r, settles) ==
  /\ Waiting(r, "register", "findDriver")
  /\ settles \in Settlements
  /\ LET email == Trim(inflight[r].body.email)
         driverExists == \E d \in drivers : d.email = email
         emailExists == inflight[r].passengerExists \/ driverExists
     IN  inflight' = [inflight EXCEPT ![r] =
           IF settles = "rejected"
             THEN Caught(@, Failed("Error Occur when trying to check for existing User"))
           ELSE IF emailExists
             THEN Answered(@, Failed("User with this email already exist as a driver or passenger"))
           ELSE [@ EXCEPT !.pc = "hash"]]
  /\ UNCHANGED <<passengers, drivers, joinRequests, driverPosts, passengerPosts,
                 issued, last, now, minted, verdict>>

\* bcrypt.hash(password, saltRounds) settles: newPassenger.save() is called.
RegisterHash(r, settles) ==
  /\ Waiting(r, "register", "hash")
  /\ settles \in Settlements
  /\ inflight' = [inflight EXCEPT ![r] =
       IF settles = "rejected"
         THEN Caught(@, Failed("Error Occur when hashing password"))
         ELSE [@ EXCEPT !.pc = "save"]]
  /\ UNCHANGED <<passengers, drivers, joinRequests, driverPosts, passengerPosts,
                 issued, last, now, minted, verdict>>

\* document.save() on the Passenger collection, which has no uniqueness
\* constraint on email: the document is added.
SaveDocument(collection, doc) == Append(collection, doc)

\* Mutant of the save: a store that refuses a second document with an email
\* it already holds.
RegisterSaveUnique(r, settles) ==
  /\ Waiting(r, "register", "save")
  /\ settles \in Settlements
  /\ LET body == Trimmed(inflight[r].body)
         newPassenger == [_id |-> Len(passengers) + 1, email |-> body.email,
                          password |-> Hash(body.password), name |-> body.name,
                          phonenumber |-> body.phonenumber, avatar |-> NoAvatar]
         refused == \E i \in 1..Len(passengers) : passengers[i].email = body.email
     IN  IF settles = "rejected" \/ refused
           THEN /\ inflight' = [inflight EXCEPT ![r] =
                     [Answered(@, Failed("Error Occur when trying to save user account"))
                        EXCEPT !.rejected = (settles = "rejected")]]
                /\ UNCHANGED passengers
           ELSE /\ inflight' = [inflight EXCEPT ![r] =
                     Answered(@, Response(200, "SUCCESS", "Registration Successfully",
                                          <<newPassenger>>, NoToken))]
                /\ passengers' = SaveDocument(passengers, newPassenger)
  /\ UNCHANGED <<drivers, joinRequests, driverPosts, passengerPosts,
                 issued, last, now, minted, verdict>>

\* newPassenger.save() settles.
RegisterSave(r, settles) ==
  /\ Waiting(r, "register", "save")
  /\ settles \in Settlements
  /\ LET body == Trimmed(inflight[r].body)
         newPassenger == [_id |-> Len(passengers) + 1, email |-> body.email,
                          password |-> Hash(body.password), name |-> body.name,
                          phonenumber |-> body.phonenumber, avatar |-> NoAvatar]
     IN  IF settles = "rejected"
           THEN /\ inflight' = [inflight EXCEPT ![r] =
                     Caught(@, Failed("Error Occur when trying to save user account"))]
                /\ UNCHANGED passengers
           ELSE /\ inflight' = [inflight EXCEPT ![r] =
                     Answered(@, Response(200, "SUCCESS", "Registration Successfully",
                                          <<newPassenger>>, NoToken))]
                /\ passengers' = SaveDocument(passengers, newPassenger)
  /\ UNCHANGED <<drivers, joinRequests, driverPosts, passengerPosts,
                 issued, last, now, minted, verdict>>

\* The synchronous part of the /signin handler.
SigninStart(body) ==
  LET req == Request("signin", body)
  IN  /\ Len(inflight) < MaxRequests
      /\ inflight' = Append(inflight,
                        IF Trim(body.email) = <<>> \/ Trim(body.password) = <<>>
                          THEN Answered(req, Failed("Empty input"))
                          ELSE [req EXCEPT !.pc = "find"])
      /\ UNCHANGED <<passengers, drivers, joinRequests, driverPosts, passengerPosts,
                     issued, last, now, minted, verdict>>

\* Mutant of the lookup callback: without the outer catch, the TypeError of
\* data[0]._id on an empty result, and a rejected lookup, answer nothing.
SigninFindUncaught(r, settles) ==
  /\ Waiting(r, "signin", "find")
  /\ settles \in Settlements
  /\ LET data == FindByEmail(Trim(inflight[r].body.email))
     IN  inflight' = [inflight EXCEPT ![r] =
           IF settles = "rejected" \/ data = <<>>
             THEN [@ EXCEPT !.pc = "done", !.rejected = (settles = "rejected")]
             ELSE [@ EXCEPT !.pc = "compare", !.data = data]]
  /\ UNCHANGED <<passengers, drivers, joinRequests, driverPosts, passengerPosts,
                 issued, last, now, minted, verdict>>

\* Passenger.find({ email }) settles.  An empty array is truthy: data[0]._id
\* throws inside the callback and the outer catch answers.
SigninFind(r, settles) ==
  /\ Waiting(r, "signin", "find")
  /\ settles \in Settlements
  /\ LET data == FindByEmail(Trim(inflight[r].body.email))
     IN  inflight' = [inflight EXCEPT ![r] =
           IF settles = "rejected"
             THEN Caught(@, Failed("No existing User with input email"))
           ELSE IF data = <<>>
             THEN Answered(@, Failed("No existing User with input email"))
           ELSE [@ EXCEPT !.pc = "compare", !.data = data]]
  /\ UNCHANGED <<passengers, drivers, joinRequests, driverPosts, passengerPosts,
                 issued, last, now, minted, verdict>>

\* bcrypt.compare(password, hashPassword) settles.
SigninCompare(r, settles) ==
  /\ Waiting(r, "signin", "compare")
  /\ settles \in Settlements
  /\ LET data == inflight[r].data
         password == Trim(inflight[r].body.password)
         result == Compare(password, data[1].password)
         resp ==
           IF settles = "rejected"
             THEN Failed("Error Occur when trying to check for password")
           ELSE IF result
             THEN Response(200, "Success", "User Successfully logged in", data,
                           Sign(data[1]._id))
           ELSE Failed("Wrong password")
     IN  /\ inflight' = [inflight EXCEPT ![r] =
               IF settles = "rejected" THEN Caught(@, resp) ELSE Answered(@, resp)]
         /\ issued' = IF resp.token = NoToken THEN issued
                      ELSE issued \cup {resp.token.userId}
  /\ UNCHANGED <<passengers, drivers, joinRequests, driverPosts, passengerPosts,
                 last, now, minted, verdict>>

InitAsync ==
  /\ passengers = <<StoredPassenger(1, EmailA, Secret1, NameAl)>>
  /\ drivers = InitialDrivers
  /\ joinRequests = <<>>
  /\ driverPosts = {}
  /\ passengerPosts = {}
  /\ issued = {}
  /\ last = Idle
  /\ InitSequential

NextAsync ==
  \/ \E body \in AsyncRegisterBodies : RegisterStart(body)
  \/ \E body \in AsyncSigninBodies : SigninStart(body)
  \/ \E r \in 1..MaxRequests, settles \in Settlements : RegisterFindPassenger(r, settles)
  \/ \E r \in 1..MaxRequests, settles \in Settlements : RegisterFindDriver(r, settles)
  \/ \E r \in 1..MaxRequests, settles \in Settlements : RegisterHash(r, settles)
  \/ \E r \in 1..MaxRequests, settles \in Settlements : RegisterSave(r, settles)
  \/ \E r \in 1..MaxRequests, settles \in Settlements : SigninFind(r, settles)
  \/ \E r \in 1..MaxRequests, settles \in Settlements : SigninCompare(r, settles)

SpecAsync == InitAsync /\ [][NextAsync]_vars

\* The next callback of request r.
Continue(r) ==
  \E settles \in Settlements :
    \/ RegisterFindPassenger(r, settles)
    \/ RegisterFindDriver(r, settles)
    \/ RegisterHash(r, settles)
    \/ RegisterSave(r, settles)
    \/ SigninFind(r, settles)
    \/ SigninCompare(r, settles)

\* Every promise awaited settles and the event loop runs the callback of
\* every settled promise.
SpecAsyncFair == SpecAsync /\ \A r \in 1..MaxRequests : WF_vars(Continue(r))

(***************************************************************************)
(* Properties of the identity routes (checked under Spec).                 *)
(***************************************************************************)
PassesValidation(body) ==
  RegisterValidation(Trim(body.email), Trim(body.password), Trim(body.name),
                     Trim(body.phonenumber)) = ""

DuplicateEmailMessage == "User with this email already exist as a driver or passenger"

\* The identity records (of either store) that hold an email, by identifier.
HoldersOf(email) ==
  {passengers[i]._id : i \in {k \in 1..Len(passengers) : passengers[k].email = email}}
  \cup {d._id : d \in {x \in drivers : x.email = email}}

\* verify(secret, verifier): the verifier is the hash of that secret.
Verifies(secret, verifier) == verifier = Hash(secret)

\* C1: no email value is held by more than one identity record of the
\* Passenger and Driver stores taken together, after any sequence of register,
\* update and google-signup requests served one at a time.
C1_EmailUniqueAcrossStores ==
  /\ \A i, j \in 1..Len(passengers) :
       i # j => passengers[i].email # passengers[j].email
  /\ \A i \in 1..Len(passengers) : \A d \in drivers : passengers[i].email # d.email

\* C3: a register request that passes validation and whose email a Passenger
\* or a Driver record already holds gets the duplicate-email failure, and the
\* stores are left as they were.
C3_DuplicateRegisterFails ==
  [][(/\ last'.op = "register"
      /\ PassesValidation(last'.req)
      /\ HoldersOf(Trim(last'.req.email)) # {})
     => (/\ last'.resp.status = "FAILED"
         /\ last'.resp.message = DuplicateEmailMessage
         /\ passengers' = passengers
         /\ drivers' = drivers)]_vars

\* A register request for the email of the driver account was refused as a
\* duplicate.
C3_Witness ==
  /\ last.op = "register"
  /\ PassesValidation(last.req)
  /\ Trim(last.req.email) = EmailD
  /\ last.resp.message = DuplicateEmailMessage

\* C4: every successful google-signup, creating or not, returns a session token
\* whose subject is the identifier of the identity record holding the
\* asserted email.
C4_FederatedTokenNamesIdentity ==
  (last.op = "google-signup" /\ last.resp.code = 200)
    => (/\ last.resp.token.kind = "jwt"
        /\ last.resp.token.userId \in HoldersOf(last.req.payload.email))

\* C7: a signin response carries a token only if a Passenger record with the
\* (trimmed) email exists whose verifier the (trimmed) password verifies
\* against; every other signin is FAILED and carries no token; a password that
\* verifies against no record of an existing email gets "Wrong password".
C7_SigninTokenOnlyWhenVerified ==
  last.op = "signin" =>
    LET email == Trim(last.req.email)
        password == Trim(last.req.password)
        accounts == {i \in 1..Len(passengers) : passengers[i].email = email}
        verified == \E i \in accounts : Verifies(password, passengers[i].password)
    IN  /\ last.resp.token # NoToken => verified
        /\ ~verified => (last.resp.status = "FAILED" /\ last.resp.token = NoToken)
        /\ (email # <<>> /\ password # <<>> /\ accounts # {} /\ ~verified)
             => last.resp.message = "Wrong password"

\* A signin with a wrong password for an existing account, and so refused.
C7_Witness ==
  /\ last.op = "signin"
  /\ \E i \in 1..Len(passengers) :
       /\ passengers[i].email = Trim(last.req.email)
       /\ ~Verifies(Trim(last.req.password), passengers[i].password)
  /\ last.resp.message = "Wrong password"
  /\ last.resp.token = NoToken

IsAlphabetic(c) == InRange(c, 65, 90) \/ InRange(c, 97, 122)

ValidationMessages ==
  {"Empty Input for some fields", "Invalid Email", "Invalid Name",
   "Invalid PhoneNumber", "Invalid Password"}

\* C10: a register request fails with a validation failure and creates no
\* record whenever, after trimming, a field is empty, the email is malformed,
\* the name has a non-alphabetic character, the phone number is not exactly
\* ten digits, or the password is shorter than eight characters.
C10_InvalidRegisterRejected ==
  last.op = "register" =>
    LET f == Trimmed(last.req)
    IN  (\/ \E k \in DOMAIN f : f[k] = <<>>
         \/ ~EmailRegex(f.email)
         \/ \E i \in 1..Len(f.name) : ~IsAlphabetic(f.name[i])
         \/ ~(Len(f.phonenumber) = 10 /\ \A i \in 1..Len(f.phonenumber) : IsDigit(f.phonenumber[i]))
         \/ Len(f.password) < 8)
        => (/\ last.resp.status = "FAILED"
            /\ last.resp.message \in ValidationMessages
            /\ last.resp.data = NoData)

(***************************************************************************)
(* Properties of the aggregation routes (checked under SpecProfile).       *)
(***************************************************************************)
Listing == last.op \in {"profile", "my-join-requests"}

\* The join-request views of the listing served last.
ListedViews ==
  IF last.op = "profile" THEN last.resp.data[1].rideshares ELSE last.resp.data

\* The caller's join requests, in ledger order.
CallerRequests ==
  SelectSeq(joinRequests, LAMBDA request : request.passengerId = last.token.userId)

Resolvable(request) == \E i \in 1..Len(driverPosts) : driverPosts[i]._id = request.driverPostId

\* C2: every join request listed by profile and by my-join-requests has a view
\* with the keys licensenumber, model, phonenumber and email exactly when its
\* status is accepted; for pending and rejected the four keys are absent; the
\* seven route keys are present for every status.
C2_ContactKeysIffAccepted ==
  (Listing /\ last.resp.code = 200) =>
    /\ Len(ListedViews) = Len(CallerRequests)
    /\ \A i \in 1..Len(ListedViews) :
         LET view == ListedViews[i]
         IN  /\ view.status = CallerRequests[i].status
             /\ RouteKeys \subseteq DOMAIN view
             /\ view.status = "accepted" => ContactKeys \subseteq DOMAIN view
             /\ view.status # "accepted" => ContactKeys \cap DOMAIN view = {}

\* A profile listing with an accepted and a not accepted request, the first
\* with the contact keys and the second without.
C2_Witness ==
  /\ last.op = "profile"
  /\ last.resp.code = 200
  /\ \E i, j \in 1..Len(ListedViews) :
       /\ ListedViews[i].status = "accepted"
       /\ "email" \in DOMAIN ListedViews[i]
       /\ ListedViews[j].status = "pending"
       /\ "email" \notin DOMAIN ListedViews[j]

PublicKeys == {"_id", "email", "name", "phonenumber"}

\* C5: the profile view of an existing passenger never holds the stored
\* password hash: it holds only the public attributes, the avatar, the
\* join-request views and the authored posts.
C5_ProfileWithoutVerifier ==
  (last.op = "profile" /\ last.resp.code = 200) =>
    LET view == last.resp.data[1]
    IN  /\ "password" \notin DOMAIN view
        /\ DOMAIN view \subseteq PublicKeys \cup {"avatar", "rideshares", "passengerPosts"}

\* C6: when the caller has several join requests and the post of one cannot be
\* resolved, profile and my-join-requests still answer with success and list
\* the views of all the caller's other requests.
C6_DanglingRequestSkipped ==
  (/\ Listing
   /\ AuthenticateToken(last.token) = 0
   /\ FindById(last.token.userId) # 0
   /\ \E i \in 1..Len(CallerRequests) : Resolvable(CallerRequests[i])
   /\ \E i \in 1..Len(CallerRequests) : ~Resolvable(CallerRequests[i]))
  => (/\ last.resp.code = 200
      /\ Len(ListedViews) = Len(SelectSeq(CallerRequests, Resolvable)))

(***************************************************************************)
(* Properties of the protected routes (checked under SpecProtected).       *)
(***************************************************************************)
ProtectedOps == {"profile", "my-join-requests", "update", "driverposts", "avatar"}

\* C8: a request to a protected route with an absent or invalid token is
\* answered with an authorization failure, and the handler queries and writes
\* no collection.
C8_NoTokenNoAccess ==
  [][(last'.op \in ProtectedOps /\ last'.token.kind # "jwt")
     => (/\ last'.resp.code \in {401, 403}
         /\ last'.resp.data = NoData
         /\ last'.touched = {}
         /\ UNCHANGED <<passengers, drivers, joinRequests, driverPosts, passengerPosts>>)]_vars

\* An avatar upload of an image without a token was refused with 401, and no
\* passenger has an avatar.
C8_Witness ==
  /\ last.op = "avatar"
  /\ last.token = NoToken
  /\ last.req # NoFile
  /\ last.resp.code = 401
  /\ \A i \in 1..Len(passengers) : passengers[i].avatar = NoAvatar


(***************************************************************************)
(* C11: a federated sign-in whose assertion fails verification answers     *)
(* with status 500 and the fixed text "Internal server error", carries no  *)
(* token, issues none, and leaves both identity stores as they were.       *)
(***************************************************************************)
C11_FailedAssertionOpaque ==
  [][(last'.op = "google-signup" /\ ~last'.req.valid)
       => /\ last'.resp.code = 500
          /\ last'.resp.message = "Internal server error"
          /\ last'.resp.token = NoToken
          /\ last'.resp.data = NoData
          /\ passengers' = passengers
          /\ drivers' = drivers
          /\ issued' = issued]_vars

C11_Witness ==
  /\ last.op = "google-signup"
  /\ ~last.req.valid
  /\ last.resp.code = 500
  /\ Len(passengers) > 0


(***************************************************************************)
(* C12: in every reachable state the password field of every Passenger     *)
(* record is a bcrypt digest: register, update with newPassword and the    *)
(* federated account creation store nothing else.                          *)
(***************************************************************************)
IsDigest(stored) == DOMAIN stored = {"bcrypt"}

C12_StoredCredentialIsDigest ==
  \A i \in 1..Len(passengers) : IsDigest(passengers[i].password)

\* A federated account next to one whose password an update has just set.
C12_Witness ==
  /\ last.op = "update"
  /\ last.resp.code = 200
  /\ last.req.newPassword # <<>>
  /\ \E i \in 1..Len(passengers) :
       /\ passengers[i]._id = last.token.userId
       /\ passengers[i].password.bcrypt = last.req.newPassword
  /\ \E i \in 1..Len(passengers) : passengers[i].password.bcrypt \in RandomSecrets


(***************************************************************************)
(* C13: a token issued for an identity at hour t verifies to that          *)
(* identity's id at every hour from t to t + 24 inclusive, and fails with  *)
(* the expired-token error at every later hour, whether signin or          *)
(* google-signup issued it.                                                *)
(***************************************************************************)
C13_TokenValidForADay ==
  verdict.checked =>
    IF verdict.at <= minted.token.iat + 24
      THEN verdict.subject \in HoldersOf(minted.email)
      ELSE verdict.subject = ExpiredToken


(***************************************************************************)
(* Properties of /register and /signin callback by callback (checked       *)
(* under SpecAsync and SpecAsyncFair).                                     *)
(***************************************************************************)
RegisterRequests == {r \in 1..Len(inflight) : inflight[r].op = "register"}

\* The request got as far as the save, none of its awaited calls rejecting.
SaveSettled(req) ==
  /\ req.pc = "done"
  /\ ~req.rejected
  /\ req.responses # <<>>
  /\ req.responses[1].message \in {"Registration Successfully",
                                    "Error Occur when trying to save user account"}

RecordsWith(email) == {i \in 1..Len(passengers) : passengers[i].email = email}

\* C14: two register requests with the same valid unused email can both pass
\* the existence check before either saves; whenever they do and their calls
\* resolve, both are answered SUCCESS and two Passenger records hold the
\* email afterwards.
C14_RacingRegistersBothSaved ==
  \A r1, r2 \in RegisterRequests :
    (/\ r1 # r2
     /\ Trim(inflight[r1].body.email) = Trim(inflight[r2].body.email)
     /\ SaveSettled(inflight[r1])
     /\ SaveSettled(inflight[r2]))
    => /\ inflight[r1].responses[1].status = "SUCCESS"
       /\ inflight[r2].responses[1].status = "SUCCESS"
       /\ Cardinality(RecordsWith(Trim(inflight[r1].body.email))) >= 2

C14_Witness ==
  \E r1, r2 \in RegisterRequests :
    /\ r1 # r2
    /\ Trim(inflight[r1].body.email) = EmailC
    /\ Trim(inflight[r2].body.email) = EmailC
    /\ inflight[r1].pc = "done"
    /\ inflight[r2].pc = "done"
    /\ inflight[r1].responses[1].status = "SUCCESS"
    /\ inflight[r2].responses[1].status = "SUCCESS"
    /\ Cardinality(RecordsWith(EmailC)) = 2

\* C15: every register and signin request with all its fields present is
\* eventually answered, and answered exactly once, whichever way its
\* validation, lookups, hashing, comparison and save turn out.
C15_ExactlyOneResponse ==
  /\ [](\A r \in 1..Len(inflight) :
         /\ Len(inflight[r].responses) <= 1
         /\ inflight[r].pc = "done" => Len(inflight[r].responses) = 1)
  /\ \A r \in 1..MaxRequests :
       (Len(inflight) >= r)
         ~> (/\ Len(inflight) >= r
             /\ inflight[r].pc = "done"
             /\ Len(inflight[r].responses) = 1)

\* A signin of an unknown email and a register whose save rejected, both
\* answered.
C15_Witness ==
  \E r1, r2 \in 1..Len(inflight) :
    /\ inflight[r1].op = "signin"
    /\ ~inflight[r1].rejected
    /\ inflight[r1].responses = <<Failed("No existing User with input email")>>
    /\ inflight[r2].op = "register"
    /\ inflight[r2].rejected
    /\ inflight[r2].responses = <<Failed("Error Occur when trying to save user account")>>

====
